---- MODULE Spec2Model ----
(***************************************************************************)
(* Model of src/main.py: main() -> capture() -> configure_camera() /       *)
(* acquire_images() driving a list of cameras through the PySpin driver.   *)
(* The driver is the environment: every answer it gives (a node's          *)
(* availability flags, a SpinnakerException, a frame's completeness) is an *)
(* input drawn at the call.  Python exceptions that no handler of the      *)
(* program catches end the process (pc = "crashed").                       *)
(***************************************************************************)
EXTENDS Integers, Sequences, FiniteSets, TLC

\* ------------------------------------------------------------------ bounds
MaxCams == 2        \* cameras the system may detect (0..MaxCams)
NUM_IMAGES == 2     \* frames per camera (src/main.py:7 sets 1, src/format.py:5 sets 10)
MaxFaults == 2      \* driver anomalies in one run: an exception raised, a node or
                    \* entry failing its gate, an incomplete frame

CamIds == 1..MaxCams

\* ----------------------------------------------------------------- strings
\* A Python str is a sequence of one-character strings.
TAB == "\t"
NL  == "\n"

kDeviceSerialNumber ==
    <<"D","e","v","i","c","e","S","e","r","i","a","l","N","u","m","b","e","r">>
kGain == <<"G","a","i","n">>
kExposure == <<"E","x","p">>
sABC123 == <<"A","B","C","1","2","3">>
sXYZ999 == <<"X","Y","Z","9","9","9">>
sQRS555 == <<"Q","R","S","5","5","5">>
v12_5 == <<"1","2",".","5">>
v3_0 == <<"3",".","0">>
vdB == <<"d","B">>

\* The identity the driver reports for each camera (DeviceSerialNumber node).
Serial(d) == CASE d = 1 -> sABC123
               [] d = 2 -> sXYZ999
               [] OTHER -> sQRS555

\* str.split(sep): the fields between the separators, empty fields kept.
RECURSIVE SplitFrom(_, _, _, _)
SplitFrom(s, sep, i, cur) ==
    IF i > Len(s) THEN <<cur>>
    ELSE IF s[i] = sep THEN <<cur>> \o SplitFrom(s, sep, i + 1, <<>>)
    ELSE SplitFrom(s, sep, i + 1, Append(cur, s[i]))

split(s, sep) == SplitFrom(s, sep, 1, <<>>)

\* file.readlines(): the text cut after every newline, terminators kept; a
\* last line without terminator is kept as it is.
RECURSIVE ReadFrom(_, _, _)
ReadFrom(s, i, cur) ==
    IF i > Len(s) THEN (IF cur = <<>> THEN <<>> ELSE <<cur>>)
    ELSE IF s[i] = NL THEN <<Append(cur, s[i])>> \o ReadFrom(s, i + 1, <<>>)
    ELSE ReadFrom(s, i + 1, Append(cur, s[i]))

readlines(text) == ReadFrom(text, 1, <<>>)

\* s[:-1]
DropLast(s) == IF Len(s) = 0 THEN s ELSE SubSeq(s, 1, Len(s) - 1)

\* ------------------------------------------------------- configuration files
Line2(k, v) == k \o <<TAB>> \o v \o <<NL>>
Line3(k, v, w) == k \o <<TAB>> \o v \o <<TAB>> \o w \o <<NL>>
Open2(k, v) == k \o <<TAB>> \o v

\* Files in the documented format, as their (key, value) lines.
DocPairs == <<
    << <<kDeviceSerialNumber, sABC123>>, <<kGain, v12_5>> >>,
    << <<kDeviceSerialNumber, sABC123>>, <<kGain, v12_5>>,
       <<kDeviceSerialNumber, sXYZ999>>, <<kGain, v3_0>> >>,
    << <<kDeviceSerialNumber, sABC123>>, <<kExposure, v3_0>> >>,
    << <<kDeviceSerialNumber, sXYZ999>>, <<kGain, v3_0>> >>
>>

\* The text of a documented-format file: every line KEY<TAB>VALUE<NL>.
RECURSIVE Render(_)
Render(ps) == IF ps = <<>> THEN <<>> ELSE Line2(ps[1][1], ps[1][2]) \o Render(Tail(ps))

\* Texts outside the documented format: a third column, a last line without
\* terminator, an empty file.
OtherFiles == <<
    Line3(kDeviceSerialNumber, sABC123, <<>>) \o Line2(kGain, v12_5),
    Line3(kDeviceSerialNumber, sABC123, <<>>) \o Line2(kGain, v12_5)
        \o Line3(kDeviceSerialNumber, sXYZ999, <<>>) \o Line2(kGain, v3_0),
    Line3(kDeviceSerialNumber, sXYZ999, <<>>) \o Line2(kGain, v3_0),
    Line3(kDeviceSerialNumber, sABC123, <<>>) \o Line2(kExposure, v3_0),
    Line3(kDeviceSerialNumber, sABC123, <<>>) \o Open2(kGain, v12_5),
    Line3(kDeviceSerialNumber, sABC123, <<>>) \o Line3(kGain, v12_5, vdB),
    Line2(kGain, v12_5) \o Open2(kDeviceSerialNumber, sABC123),
    Line3(kDeviceSerialNumber, sABC123, <<>>) \o Line2(kGain, v12_5)
        \o Line3(kDeviceSerialNumber, sXYZ999, <<>>) \o Line2(kExposure, v3_0),
    <<>>
>>

\* The contents input.tsv may have.
ConfigFiles == [j \in 1..Len(DocPairs) |-> Render(DocPairs[j])] \o OtherFiles

FileIds == 1..Len(ConfigFiles)
Documented(f) == f \in 1..Len(DocPairs)

\* ------------------------------------------------------------- gain lookup
\* The local variable gain of capture: unbound until its first assignment.
Unbound == [bound |-> FALSE, val |-> <<>>]
Bound(v) == [bound |-> TRUE, val |-> v]

\* One iteration of "for i, line in enumerate(lines)" in capture; st is
\* [exc, gain], exc the Python exception raised so far ("" for none).
LookupLine(ls, i, serial, st) ==
    LET f == split(ls[i], TAB) IN
    IF f[1] # kDeviceSerialNumber THEN st
    ELSE IF Len(f) < 2 THEN [st EXCEPT !.exc = "IndexError"]
    ELSE IF f[2] # serial THEN st
    ELSE IF i + 1 > Len(ls) THEN [st EXCEPT !.exc = "IndexError"]
    ELSE LET g == split(ls[i + 1], TAB) IN
         IF g[1] # kGain THEN [st EXCEPT !.exc = "ValueError"]
         ELSE IF Len(g) < 2 THEN [st EXCEPT !.exc = "IndexError"]
         ELSE [st EXCEPT !.gain = Bound(DropLast(g[2]))]

RECURSIVE LookupFrom(_, _, _, _)
LookupFrom(ls, i, serial, st) ==
    IF i > Len(ls) \/ st.exc # "" THEN st
    ELSE LookupFrom(ls, i + 1, serial, LookupLine(ls, i, serial, st))

\* The whole loop, entered with the value gain has from earlier cameras.
LookupGain(ls, serial, g0) == LookupFrom(ls, 1, serial, [exc |-> "", gain |-> g0])

\* ------------------------------------------------------------ feature nodes
NodeNames == {"PixelFormat", "Width", "Height", "TriggerMode", "TriggerSource",
              "SensorShutterMode", "GainAuto", "Gain", "AcquisitionMode"}

\* The integer code the driver gives the entry named choice of an enumeration.
EntryCode(setting, choice) ==
    CASE choice = "Off" -> 1
      [] choice = "On" -> 2
      [] OTHER -> 3

\* GetMax() of an integer node.
NodeMax(node) == IF node = "Width" THEN 8 ELSE 6

\* The node values of a camera before configuration; trig is the code its
\* TriggerMode holds (On or Off).  0 stands for the value a node had before;
\* Gain holds what is passed to SetValue, a str, and <<>> before.
InitialNodes(trig) ==
    [nd \in NodeNames |-> IF nd = "TriggerMode" THEN trig
                          ELSE IF nd = "Gain" THEN <<>> ELSE 0]

NoNodes == [nd \in NodeNames |-> IF nd = "Gain" THEN <<>> ELSE 0]

\* One write to a node, with the flags the node had at the write.
Write(node, av, wr) == [node |-> node, avail |-> av, writable |-> wr]

\* Variant of change_enum_setting: the entry's gate is not tested.
change_enum_setting_NoEntryGate(nm, setting, choice, e) ==
    IF e.av /\ e.wr
    THEN IF e.fault
         THEN [nm |-> nm, raised |-> FALSE, writes |-> {Write(setting, e.av, e.wr)}]
         ELSE [nm |-> [nm EXCEPT ![setting] = EntryCode(setting, choice)],
               raised |-> FALSE, writes |-> {Write(setting, e.av, e.wr)}]
    ELSE [nm |-> nm, raised |-> FALSE, writes |-> {}]

\* change_enum_setting(cam, setting, choice) on node values nm.  e holds the
\* driver's answers: e.av/e.wr for the enumeration node, e.eav/e.erd for the
\* entry, e.fault when SetIntValue raises.  The handler swallows the exception.
change_enum_setting(nm, setting, choice, e) ==
    IF e.av /\ e.wr
    THEN IF e.eav /\ e.erd
         THEN IF e.fault
              THEN [nm |-> nm, raised |-> FALSE, writes |-> {Write(setting, e.av, e.wr)}]
              ELSE [nm |-> [nm EXCEPT ![setting] = EntryCode(setting, choice)],
                    raised |-> FALSE, writes |-> {Write(setting, e.av, e.wr)}]
         ELSE [nm |-> nm, raised |-> FALSE, writes |-> {}]
    ELSE [nm |-> nm, raised |-> FALSE, writes |-> {}]

\* Variant of change_gain: the Gain block is not nested in the GainAuto one,
\* so Gain is written also when GainAuto could not be set to Off.
change_gain_Unnested(nm, g, e) ==
    LET auto == e.av /\ e.wr /\ e.eav /\ e.erd
        nm1 == IF auto THEN [nm EXCEPT !["GainAuto"] = EntryCode("GainAuto", "Off")]
               ELSE nm
        w1 == IF auto THEN {Write("GainAuto", e.av, e.wr)} ELSE {} IN
    IF auto /\ e.fault
    THEN [nm |-> nm, raised |-> TRUE, writes |-> w1]
    ELSE IF e.gav /\ e.gwr
         THEN [nm |-> [nm1 EXCEPT !["Gain"] = g], raised |-> FALSE,
               writes |-> w1 \cup {Write("Gain", e.gav, e.gwr)}]
         ELSE [nm |-> nm1, raised |-> FALSE, writes |-> w1]

\* Variant of change_gain: the Gain node is written without its gate.
change_gain_NoGainGate(nm, g, e) ==
    IF e.av /\ e.wr /\ e.eav /\ e.erd /\ ~e.fault
    THEN [nm |-> [nm EXCEPT !["GainAuto"] = EntryCode("GainAuto", "Off"), !["Gain"] = g],
          raised |-> e.gfault,
          writes |-> {Write("GainAuto", e.av, e.wr), Write("Gain", e.gav, e.gwr)}]
    ELSE [nm |-> nm, raised |-> e.fault, writes |-> {}]

\* change_gain(cam, gain): GainAuto to Off, then Gain.  No handler of its own:
\* a SpinnakerException from either write leaves the function (raised).
change_gain(nm, g, e) ==
    IF e.av /\ e.wr
    THEN IF e.eav /\ e.erd
         THEN IF e.fault
              THEN [nm |-> nm, raised |-> TRUE, writes |-> {Write("GainAuto", e.av, e.wr)}]
              ELSE LET nm1 == [nm EXCEPT !["GainAuto"] = EntryCode("GainAuto", "Off")]
                       w1 == {Write("GainAuto", e.av, e.wr)} IN
                   IF e.gav /\ e.gwr
                   THEN IF e.gfault
                        THEN [nm |-> nm1, raised |-> TRUE,
                              writes |-> w1 \cup {Write("Gain", e.gav, e.gwr)}]
                        ELSE [nm |-> [nm1 EXCEPT !["Gain"] = g], raised |-> FALSE,
                              writes |-> w1 \cup {Write("Gain", e.gav, e.gwr)}]
                   ELSE [nm |-> nm1, raised |-> FALSE, writes |-> w1]
         ELSE [nm |-> nm, raised |-> FALSE, writes |-> {}]
    ELSE [nm |-> nm, raised |-> FALSE, writes |-> {}]

\* The Width and Height blocks of configure_camera: the node is set to its
\* maximum when available and writable; a SpinnakerException leaves
\* configure_camera through its handler.
set_max(nm, node, e) ==
    IF e.av /\ e.wr
    THEN IF e.fault
         THEN [nm |-> nm, raised |-> TRUE, writes |-> {Write(node, e.av, e.wr)}]
         ELSE [nm |-> [nm EXCEPT ![node] = NodeMax(node)], raised |-> FALSE,
               writes |-> {Write(node, e.av, e.wr)}]
    ELSE [nm |-> nm, raised |-> FALSE, writes |-> {}]

\* Variant of Settings: the trigger source is selected before triggering is
\* turned off.
Settings_SourceFirst == <<
    [op |-> "enum", node |-> "PixelFormat", choice |-> "Mono16"],
    [op |-> "max", node |-> "Width", choice |-> ""],
    [op |-> "max", node |-> "Height", choice |-> ""],
    [op |-> "enum", node |-> "TriggerSource", choice |-> "Line3"],
    [op |-> "enum", node |-> "TriggerMode", choice |-> "Off"],
    [op |-> "enum", node |-> "TriggerMode", choice |-> "On"],
    [op |-> "enum", node |-> "SensorShutterMode", choice |-> "GlobalReset"],
    [op |-> "gain", node |-> "Gain", choice |-> "Off"],
    [op |-> "enum", node |-> "AcquisitionMode", choice |-> "SingleFrame"]
>>

\* The settings configure_camera applies, in its order.
Settings == <<
    [op |-> "enum", node |-> "PixelFormat", choice |-> "Mono16"],
    [op |-> "max", node |-> "Width", choice |-> ""],
    [op |-> "max", node |-> "Height", choice |-> ""],
    [op |-> "enum", node |-> "TriggerMode", choice |-> "Off"],
    [op |-> "enum", node |-> "TriggerSource", choice |-> "Line3"],
    [op |-> "enum", node |-> "TriggerMode", choice |-> "On"],
    [op |-> "enum", node |-> "SensorShutterMode", choice |-> "GlobalReset"],
    [op |-> "gain", node |-> "Gain", choice |-> "Off"],
    [op |-> "enum", node |-> "AcquisitionMode", choice |-> "SingleFrame"]
>>

\* The driver's answers to one enumeration setting, one integer setting and
\* one change_gain call.
AllEnv == [av : BOOLEAN, wr : BOOLEAN, eav : BOOLEAN, erd : BOOLEAN, fault : BOOLEAN,
           gav : BOOLEAN, gwr : BOOLEAN, gfault : BOOLEAN]
\* An answer is drawn only for a question that is asked: the fields a call
\* never reaches stay FALSE.  The flags of the Gain node are the camera's own
\* and are drawn whatever the GainAuto node answered.
EnumEnv == {e \in AllEnv :
              /\ ~e.gav /\ ~e.gwr /\ ~e.gfault
              /\ (~(e.av /\ e.wr) => ~e.eav /\ ~e.erd)
              /\ (~(e.eav /\ e.erd) => ~e.fault)}
MaxEnv == {e \in AllEnv :
              /\ ~e.gav /\ ~e.gwr /\ ~e.gfault /\ ~e.eav /\ ~e.erd
              /\ (~(e.av /\ e.wr) => ~e.fault)}
GainEnv == {e \in AllEnv :
              /\ (~(e.av /\ e.wr) => ~e.eav /\ ~e.erd)
              /\ (~(e.eav /\ e.erd) => ~e.fault)
              /\ (~(e.gav /\ e.gwr) => ~e.gfault)}
\* The call went as on a fully equipped camera: every gate passed, no
\* exception.
CleanEnum(e) == e.av /\ e.wr /\ e.eav /\ e.erd /\ ~e.fault
CleanMax(e) == e.av /\ e.wr /\ ~e.fault
CleanGain(e) == CleanEnum(e) /\ e.gav /\ e.gwr /\ ~e.gfault
NoEnv == [av |-> FALSE, wr |-> FALSE, eav |-> FALSE, erd |-> FALSE, fault |-> FALSE,
          gav |-> FALSE, gwr |-> FALSE, gfault |-> FALSE]

\* -------------------------------------------------------------------- state
VARIABLES
    pc,             \* position in main / capture / configure_camera / acquire_images
    n,              \* num_cameras
    idx,            \* the camera of the loop being run (1-based)
    file,           \* which text input.tsv holds (0: none read)
    lines,          \* capture: lines
    serial_number,  \* capture: serial_number
    gain,           \* capture: gain (Unbound until assigned)
    result,         \* capture: result
    mresult,        \* main: result
    nodemap,        \* node values of the camera configure_camera works on
    step,           \* configure_camera: the setting being applied
    cfgok,          \* what configure_camera returns
    acc,            \* the node accesses of the last configuration call
    dsn,            \* acquire_images: device_serial_number
    i,              \* acquire_images: frame index
    initCalls, beginCalls, endCalls, deinitCalls, getNextCalls,  \* calls per camera
    streaming,      \* cameras whose acquisition is active
    frames,         \* per camera, the frames GetNextImage returned
    acqExc,         \* per camera, the exception that ended acquire_images
    cfgFailed,      \* cameras for which configure_camera returned False
    resolved,       \* per camera, the gain its own lookup loop assigned
    exc,            \* the uncaught Python exception that ended the process
    faults,         \* driver anomalies so far
    released,       \* system.ReleaseInstance() was called
    failed,         \* capture: some per-device outcome was not a success
    lastRead,       \* the last node value read for a serial number
    probed,         \* main: the outcome of the write-permission probe
    tldevice        \* src/format.py, capture: the camera nodemap_tldevice belongs to

vars == <<pc, n, idx, file, lines, serial_number, gain, result, mresult, nodemap,
          step, cfgok, acc, dsn, i, initCalls, beginCalls, endCalls, deinitCalls,
          getNextCalls, streaming, frames, acqExc, cfgFailed, resolved, exc, faults, released,
          failed, lastRead, probed, tldevice>>

calls == <<initCalls, beginCalls, endCalls, deinitCalls, getNextCalls>>
cfgLocals == <<nodemap, step, cfgok, acc>>
capLocals == <<file, lines, serial_number, gain>>
acqLocals == <<dsn, i>>
acqHist == <<frames, acqExc>>
hist == <<failed, lastRead, probed, tldevice>>

NoAcc == [call |-> "", node |-> "", choice |-> "", env |-> NoEnv,
          before |-> NoNodes, writes |-> {}]
NotYet == [bound |-> FALSE, val |-> <<"?">>]
NoRead == [node |-> "", fn |-> "", readable |-> FALSE]

Inc(f, d) == [f EXCEPT ![d] = @ + 1]

\* The driver misbehaves (b) only while the run's budget of anomalies lasts.
Anomaly(b) == (b => faults < MaxFaults) /\ faults' = IF b THEN faults + 1 ELSE faults
Cams == 1..n

Init ==
    /\ pc = "m_probe"
    /\ n = 0 /\ idx = 0 /\ file = 0
    /\ lines = <<>> /\ serial_number = <<>> /\ gain = Unbound
    /\ result = TRUE /\ mresult = TRUE
    /\ nodemap = NoNodes /\ step = 0 /\ cfgok = TRUE /\ acc = NoAcc
    /\ dsn = <<>> /\ i = 0
    /\ initCalls = [d \in CamIds |-> 0]
    /\ beginCalls = [d \in CamIds |-> 0]
    /\ endCalls = [d \in CamIds |-> 0]
    /\ deinitCalls = [d \in CamIds |-> 0]
    /\ getNextCalls = [d \in CamIds |-> 0]
    /\ streaming = {}
    /\ frames = [d \in CamIds |-> <<>>]
    /\ acqExc = [d \in CamIds |-> ""]
    /\ cfgFailed = {}
    /\ resolved = [d \in CamIds |-> NotYet]
    /\ exc = ""
    /\ faults = 0
    /\ released = FALSE
    /\ failed = FALSE
    /\ lastRead = NoRead
    /\ probed = "no"
    /\ tldevice = 0

\* ------------------------------------------------------------ control flow
\* An uncaught Python exception: the interpreter unwinds out of main.
Crash(e) == pc' = "crashed" /\ exc' = e

\* capture returns r to main ("result &= capture(cam_list)").
ReturnFromCapture(r) ==
    /\ result' = r
    /\ mresult' = (mresult /\ r)
    /\ pc' = "m_deinit"
    /\ idx' = 1

\* Variant of Fold: the outcome is assigned, not accumulated.
Fold_Assign(r, ok) == ok

\* "result &= ...": the accumulated result after one more outcome.
Fold(r, ok) == r /\ ok

\* Variant of AfterConfigure: the return value of configure_camera is ignored.
AfterConfigure_IgnoreFailure(ok, d, cnt) ==
    IF d < cnt THEN "c_info" ELSE "c_mkdir"

\* Where capture goes when configure_camera has returned ok for camera d of cnt.
AfterConfigure(ok, d, cnt) ==
    IF ~ok THEN "return" ELSE IF d < cnt THEN "c_info" ELSE "c_mkdir"

\* Variant of AfterBegin: each camera is acquired from right after it was
\* started, as src/format.py does inside acquire_images.
AfterBegin_Interleaved(d, cnt) == [pc |-> "c_acquire", idx |-> 1]

\* Variant of AfterBegin: the next camera is configured after this one was
\* started.
AfterBegin_ThenConfigure(d, cnt) ==
    IF d < cnt THEN [pc |-> "c_info", idx |-> d + 1]
    ELSE [pc |-> "c_acquire", idx |-> 1]

\* Where capture goes when BeginAcquisition has returned for camera d of cnt:
\* [pc, idx].
AfterBegin(d, cnt) ==
    IF d < cnt THEN [pc |-> "c_begin", idx |-> d + 1]
    ELSE [pc |-> "c_acquire", idx |-> 1]

\* Variant of AfterAcquire: a failed camera ends the acquisition loop.
AfterAcquire_AbortOnFailure(ok, d, cnt) ==
    IF ok /\ d < cnt THEN [pc |-> "c_acquire", idx |-> d + 1]
    ELSE [pc |-> "c_end", idx |-> 1]

\* Where capture goes when acquire_images has returned ok for camera d of cnt.
AfterAcquire(ok, d, cnt) ==
    IF d < cnt THEN [pc |-> "c_acquire", idx |-> d + 1]
    ELSE [pc |-> "c_end", idx |-> 1]

\* --------------------------------------------------------------------- main
\* Variant of AfterProbe: main goes on after a failed probe.
AfterProbe_Ignore(ok) == "m_cameras"

\* main: where it goes after the probe; "return False" when test.txt could
\* not be opened for writing.
AfterProbe(ok) == IF ok THEN "m_cameras" ELSE "done"

\* main: the write-permission probe (open("test.txt", "w+")).
MainProbe ==
    /\ pc = "m_probe"
    /\ \E ok \in BOOLEAN :
         /\ probed' = IF ok THEN "ok" ELSE "failed"
         /\ pc' = AfterProbe(ok)
         /\ mresult' = IF ok THEN mresult ELSE FALSE
    /\ UNCHANGED <<faults, n, idx, capLocals, result, cfgLocals, acqLocals, calls, streaming,
                   acqHist, cfgFailed, resolved, exc, released>>
    /\ UNCHANGED <<failed, lastRead, tldevice>>

\* main: system.GetCameras(); no camera ends main after releasing the system.
MainGetCameras ==
    /\ pc = "m_cameras"
    /\ \E cnt \in 0..MaxCams :
         /\ n' = cnt
         /\ IF cnt = 0
            THEN pc' = "done" /\ mresult' = FALSE /\ released' = TRUE /\ idx' = idx
            ELSE pc' = "m_init" /\ mresult' = mresult /\ released' = released /\ idx' = 1
    /\ UNCHANGED <<faults, capLocals, result, cfgLocals, acqLocals, calls, streaming,
                   acqHist, cfgFailed, resolved, exc>>
    /\ UNCHANGED hist

\* main: "for cam in cam_list: cam.Init()", then the call of capture.
MainInit ==
    /\ pc = "m_init"
    /\ initCalls' = Inc(initCalls, idx)
    /\ IF idx < n THEN idx' = idx + 1 /\ pc' = pc /\ result' = result
       ELSE idx' = 1 /\ pc' = "c_open" /\ result' = TRUE
    /\ UNCHANGED <<faults, n, capLocals, mresult, cfgLocals, acqLocals, beginCalls, endCalls,
                   deinitCalls, getNextCalls, streaming, acqHist, cfgFailed, resolved,
                   exc, released>>
    /\ UNCHANGED hist

\* ------------------------------------------------------------------ capture
\* capture: open("input.tsv") and readlines(); a missing file raises
\* FileNotFoundError, which nothing catches.
CaptureOpen ==
    /\ pc = "c_open"
    /\ \E f \in {0} \cup FileIds :
         IF f = 0
         THEN Crash("FileNotFoundError") /\ UNCHANGED <<file, lines>>
         ELSE /\ file' = f
              /\ lines' = readlines(ConfigFiles[f])
              /\ pc' = "c_info"
              /\ exc' = exc
    /\ UNCHANGED <<faults, n, idx, serial_number, gain, result, mresult, cfgLocals, acqLocals,
                   calls, streaming, acqHist, cfgFailed, resolved, released>>
    /\ UNCHANGED hist

\* capture: "result &= print_device_info(nodemap_tldevice)".
PrintDeviceInfo ==
    /\ pc = "c_info"
    /\ \E ok \in BOOLEAN :
         /\ result' = Fold(result, ok)
         /\ failed' = (failed \/ ~ok)
         /\ Anomaly(~ok)
    /\ pc' = "c_serial"
    /\ lastRead' = lastRead
    /\ UNCHANGED <<n, idx, capLocals, mresult, cfgLocals, acqLocals, calls, streaming,
                   acqHist, cfgFailed, resolved, exc, released>>
    /\ UNCHANGED <<probed, tldevice>>

\* capture: the DeviceSerialNumber node is read without a gate; on a node
\* that cannot be read GetValue raises SpinnakerException, which capture's
\* handler turns into "result = False; return result".
ReadSerial ==
    /\ pc = "c_serial"
    /\ \E readable \in BOOLEAN :
         /\ Anomaly(~readable)
         /\ lastRead' = [node |-> "DeviceSerialNumber", fn |-> "capture",
                         readable |-> readable]
         /\ failed' = (failed \/ ~readable)
         /\ IF readable
            THEN /\ serial_number' = Serial(idx)
                 /\ pc' = "c_lookup"
                 /\ UNCHANGED <<idx, result, mresult>>
            ELSE /\ ReturnFromCapture(FALSE)
                 /\ serial_number' = serial_number
    /\ UNCHANGED <<n, file, lines, gain, cfgLocals, acqLocals, calls, streaming,
                   acqHist, cfgFailed, resolved, exc, released>>
    /\ UNCHANGED <<probed, tldevice>>

\* capture: the loop over lines, then "try: gain / except NameError: print".
\* ValueError and IndexError are not caught anywhere.
Lookup ==
    /\ pc = "c_lookup"
    /\ LET st == LookupGain(lines, serial_number, gain) IN
         IF st.exc # ""
         THEN Crash(st.exc) /\ UNCHANGED <<gain, resolved>>
         ELSE /\ gain' = st.gain
              /\ resolved' = [resolved EXCEPT
                                ![idx] = LookupGain(lines, serial_number, Unbound).gain]
              /\ pc' = "c_init"
              /\ exc' = exc
    /\ UNCHANGED <<faults, n, idx, file, lines, serial_number, result, mresult, cfgLocals,
                   acqLocals, calls, streaming, acqHist, cfgFailed, released>>
    /\ UNCHANGED hist

\* capture: cam.Init().
CaptureInit ==
    /\ pc = "c_init"
    /\ initCalls' = Inc(initCalls, idx)
    /\ pc' = "c_configure"
    /\ UNCHANGED <<faults, n, idx, capLocals, result, mresult, cfgLocals, acqLocals, beginCalls,
                   endCalls, deinitCalls, getNextCalls, streaming, acqHist, cfgFailed,
                   resolved, exc, released>>
    /\ UNCHANGED hist

\* capture: the call configure_camera(cam, gain).  Evaluating an unbound
\* gain raises UnboundLocalError, which nothing catches.
CallConfigure ==
    /\ pc = "c_configure"
    /\ IF ~gain.bound
       THEN Crash("UnboundLocalError") /\ UNCHANGED <<nodemap, step>>
       ELSE /\ \E trig \in {EntryCode("TriggerMode", "Off"), EntryCode("TriggerMode", "On")} :
                 nodemap' = InitialNodes(trig)
            /\ step' = 1
            /\ pc' = "k_step"
            /\ exc' = exc
    /\ UNCHANGED <<faults, n, idx, capLocals, result, mresult, cfgok, acc, acqLocals, calls,
                   streaming, acqHist, cfgFailed, resolved, released>>
    /\ UNCHANGED hist

\* --------------------------------------------------------- configure_camera
\* After one setting: the next one, or the return of configure_camera.
Advance(raised) ==
    IF raised THEN cfgok' = FALSE /\ pc' = "k_return" /\ step' = step
    ELSE IF step < Len(Settings) THEN cfgok' = cfgok /\ pc' = pc /\ step' = step + 1
    ELSE cfgok' = TRUE /\ pc' = "k_return" /\ step' = step

Record(call, e, r) ==
    acc' = [call |-> call, node |-> Settings[step].node, choice |-> Settings[step].choice,
            env |-> e, before |-> nodemap, writes |-> r.writes]

ChangeEnumSetting ==
    /\ pc = "k_step" /\ Settings[step].op = "enum"
    /\ \E e \in EnumEnv :
         LET r == change_enum_setting(nodemap, Settings[step].node,
                                      Settings[step].choice, e) IN
         /\ Anomaly(~CleanEnum(e))
         /\ nodemap' = r.nm /\ Record("change_enum_setting", e, r) /\ Advance(r.raised)
    /\ UNCHANGED <<n, idx, capLocals, result, mresult, acqLocals, calls, streaming,
                   acqHist, cfgFailed, resolved, exc, released>>
    /\ UNCHANGED hist

SetMaxExtent ==
    /\ pc = "k_step" /\ Settings[step].op = "max"
    /\ \E e \in MaxEnv :
         LET r == set_max(nodemap, Settings[step].node, e) IN
         /\ Anomaly(~CleanMax(e))
         /\ nodemap' = r.nm /\ Record("set_max", e, r) /\ Advance(r.raised)
    /\ UNCHANGED <<n, idx, capLocals, result, mresult, acqLocals, calls, streaming,
                   acqHist, cfgFailed, resolved, exc, released>>
    /\ UNCHANGED hist

ChangeGain ==
    /\ pc = "k_step" /\ Settings[step].op = "gain"
    /\ \E e \in GainEnv :
         LET r == change_gain(nodemap, gain.val, e) IN
         /\ Anomaly(~CleanGain(e))
         /\ nodemap' = r.nm /\ Record("change_gain", e, r) /\ Advance(r.raised)
    /\ UNCHANGED <<n, idx, capLocals, result, mresult, acqLocals, calls, streaming,
                   acqHist, cfgFailed, resolved, exc, released>>
    /\ UNCHANGED hist

\* capture: "if not configure_camera(cam, gain): return False", else the next
\* camera or the acquisition phase.
ConfigureReturn ==
    /\ pc = "k_return"
    /\ LET to == AfterConfigure(cfgok, idx, n) IN
         /\ cfgFailed' = IF cfgok THEN cfgFailed ELSE cfgFailed \cup {idx}
         /\ failed' = (failed \/ ~cfgok)
         /\ lastRead' = lastRead
         /\ IF to = "return"
            THEN ReturnFromCapture(FALSE)
            ELSE /\ pc' = to
                 /\ idx' = IF to = "c_info" THEN idx + 1 ELSE 1
                 /\ UNCHANGED <<result, mresult>>
    /\ nodemap' = NoNodes /\ step' = 0 /\ cfgok' = TRUE /\ acc' = NoAcc
    /\ UNCHANGED <<faults, n, capLocals, acqLocals, calls, streaming, acqHist, resolved, exc,
                   released>>
    /\ UNCHANGED <<probed, tldevice>>

\* ------------------------------------------------------ acquisition phase
\* capture: askdirectory() and os.mkdir(directory); an OSError is not caught.
MakeDirectory ==
    /\ pc = "c_mkdir"
    /\ \E ok \in BOOLEAN :
         IF ok THEN pc' = "c_begin" /\ idx' = 1 /\ exc' = exc
         ELSE Crash("OSError") /\ idx' = idx
    /\ UNCHANGED <<faults, n, capLocals, result, mresult, cfgLocals, acqLocals, calls, streaming,
                   acqHist, cfgFailed, resolved, released>>
    /\ UNCHANGED hist

\* capture: "for cam in cam_list: cam.BeginAcquisition()"; a
\* SpinnakerException goes to capture's handler.
BeginAcquisition ==
    /\ pc = "c_begin"
    /\ beginCalls' = Inc(beginCalls, idx)
    /\ \E fault \in BOOLEAN :
         /\ Anomaly(fault)
         /\ failed' = (failed \/ fault)
         /\ lastRead' = lastRead
         /\ IF fault
            THEN ReturnFromCapture(FALSE) /\ streaming' = streaming
            ELSE /\ streaming' = streaming \cup {idx}
                 /\ pc' = AfterBegin(idx, n).pc
                 /\ idx' = AfterBegin(idx, n).idx
                 /\ UNCHANGED <<result, mresult>>
    /\ UNCHANGED <<n, capLocals, cfgLocals, acqLocals, initCalls, endCalls, deinitCalls,
                   getNextCalls, acqHist, cfgFailed, resolved, exc, released>>
    /\ UNCHANGED <<probed, tldevice>>

\* acquire_images returns ok to capture: "result &= acquire_images(...)".
AcquireReturn(ok) ==
    /\ result' = Fold(result, ok)
    /\ failed' = (failed \/ ~ok)
    /\ pc' = AfterAcquire(ok, idx, n).pc
    /\ idx' = AfterAcquire(ok, idx, n).idx

\* The end of one pass of "for i in range(NUM_IMAGES)".
NextFrame ==
    IF i + 1 < NUM_IMAGES
    THEN i' = i + 1 /\ pc' = "a_next" /\ UNCHANGED <<idx, result, failed>>
    ELSE i' = i /\ AcquireReturn(TRUE)

\* acquire_images: the gated read of DeviceSerialNumber for the filename.
AcquireEnter ==
    /\ pc = "c_acquire"
    /\ \E av \in BOOLEAN, rd \in BOOLEAN :
         /\ Anomaly(~(av /\ rd))
         /\ dsn' = IF av /\ rd THEN Serial(idx) ELSE <<>>
         /\ lastRead' = IF av /\ rd
                         THEN [node |-> "DeviceSerialNumber", fn |-> "acquire_images",
                               readable |-> TRUE]
                         ELSE lastRead
    /\ failed' = failed
    /\ i' = 0
    /\ pc' = "a_next"
    /\ UNCHANGED <<n, idx, capLocals, result, mresult, cfgLocals, calls, streaming,
                   acqHist, cfgFailed, resolved, exc, released>>
    /\ UNCHANGED <<probed, tldevice>>

Frame(complete) == [complete |-> complete, saved |-> "no", released |-> 0, name |-> <<>>]

\* "%d" % k: the decimal digits of k.
RECURSIVE Decimal(_)
Decimal(k) ==
    LET digit == <<"0", "1", "2", "3", "4", "5", "6", "7", "8", "9">>[(k % 10) + 1] IN
    IF k < 10 THEN <<digit>> ELSE Append(Decimal(k \div 10), digit)

Prefix == <<"R", "a", "t", "K", "i", "n", "g", "R", "e", "i", "g", "n", "s">>
Extension == <<".", "p", "n", "g">>

\* Variant of Filename: the frame index is left out of the name.
Filename_NoIndex(device_serial_number, k) ==
    IF device_serial_number # <<>>
    THEN Prefix \o <<"-">> \o device_serial_number \o Extension
    ELSE Prefix \o Extension

\* acquire_images: "RatKingReigns-%s-%d.png" % (device_serial_number, i) if
\* device_serial_number is not empty, else "RatKingReigns-%d.png" % i.
Filename(device_serial_number, k) ==
    IF device_serial_number # <<>>
    THEN Prefix \o <<"-">> \o device_serial_number \o <<"-">> \o Decimal(k) \o Extension
    ELSE Prefix \o <<"-">> \o Decimal(k) \o Extension

\* Variant of SaveWanted: the completeness of the frame is not looked at.
SaveWanted_Always(incomplete) == TRUE

\* acquire_images: "if image_result.IsIncomplete(): print(...) else: ..." -
\* only the else branch converts, saves and releases the frame.
SaveWanted(incomplete) == ~incomplete

\* acquire_images: cam.GetNextImage(timeout) and the completeness test.  An
\* incomplete frame is reported and the loop goes on.
GetNextImage ==
    /\ pc = "a_next"
    /\ getNextCalls' = Inc(getNextCalls, idx)
    /\ \E out \in {"raise", "incomplete", "complete"} :
         /\ Anomaly(out # "complete")
         /\ IF out = "raise"
            THEN /\ acqExc' = [acqExc EXCEPT ![idx] = "retrieval"]
                 /\ pc' = "a_except"
                 /\ UNCHANGED <<frames, i, idx, result, failed>>
            ELSE /\ frames' = [frames EXCEPT ![idx] = Append(@, Frame(out = "complete"))]
                 /\ acqExc' = acqExc
                 /\ IF SaveWanted(out = "incomplete")
                    THEN pc' = "a_save" /\ UNCHANGED <<i, idx, result, failed>>
                    ELSE NextFrame
    /\ UNCHANGED <<n, capLocals, mresult, cfgLocals, dsn, initCalls, beginCalls, endCalls,
                   deinitCalls, streaming, cfgFailed, resolved, exc, released>>
    /\ lastRead' = lastRead
    /\ UNCHANGED <<probed, tldevice>>

\* acquire_images: image_result.Save(directory + "/" + filename, PySpin.PNG).
SaveImage ==
    /\ pc = "a_save"
    /\ \E ok \in BOOLEAN :
         /\ Anomaly(~ok)
         /\ IF ok
            THEN /\ frames' = [frames EXCEPT ![idx][Len(frames[idx])].saved = "ok",
                                              ![idx][Len(frames[idx])].name =
                                                  Filename(dsn, i)]
                 /\ acqExc' = acqExc
                 /\ pc' = "a_release"
            ELSE /\ frames' = [frames EXCEPT ![idx][Len(frames[idx])].saved = "failed",
                                              ![idx][Len(frames[idx])].name =
                                                  Filename(dsn, i)]
                 /\ acqExc' = [acqExc EXCEPT ![idx] = "save"]
                 /\ pc' = "a_except"
    /\ UNCHANGED <<n, idx, capLocals, result, mresult, cfgLocals, acqLocals, calls,
                   streaming, cfgFailed, resolved, exc, released>>
    /\ UNCHANGED hist

\* acquire_images: image_result.Release(), last statement of the else branch.
ReleaseImage ==
    /\ pc = "a_release"
    /\ frames' = [frames EXCEPT ![idx][Len(frames[idx])].released = @ + 1]
    /\ NextFrame
    /\ UNCHANGED <<faults, n, capLocals, mresult, cfgLocals, dsn, calls, streaming, acqExc,
                   cfgFailed, resolved, exc, released>>
    /\ lastRead' = lastRead
    /\ UNCHANGED <<probed, tldevice>>

\* acquire_images: the handler of the frame loop, "cam.EndAcquisition();
\* return False".  If EndAcquisition raises, the outer handler returns False.
AcquireExcept ==
    /\ pc = "a_except"
    /\ endCalls' = Inc(endCalls, idx)
    /\ \E fault \in BOOLEAN :
         /\ Anomaly(fault)
         /\ streaming' = IF fault THEN streaming ELSE streaming \ {idx}
    /\ AcquireReturn(FALSE)
    /\ lastRead' = lastRead
    /\ UNCHANGED <<n, capLocals, mresult, cfgLocals, acqLocals, initCalls, beginCalls,
                   deinitCalls, getNextCalls, acqHist, cfgFailed, resolved, exc, released>>
    /\ UNCHANGED <<probed, tldevice>>

\* ----------------------------------------------------------------- teardown
\* capture: cam.EndAcquisition() of the teardown loop; a SpinnakerException
\* goes to capture's handler, which leaves the loop.
EndAcquisition ==
    /\ pc = "c_end"
    /\ endCalls' = Inc(endCalls, idx)
    /\ \E fault \in BOOLEAN :
         /\ Anomaly(fault)
         /\ failed' = (failed \/ fault)
         /\ lastRead' = lastRead
         /\ IF fault
            THEN ReturnFromCapture(FALSE) /\ streaming' = streaming
            ELSE /\ streaming' = streaming \ {idx}
                 /\ pc' = "c_deinit"
                 /\ UNCHANGED <<idx, result, mresult>>
    /\ UNCHANGED <<n, capLocals, cfgLocals, acqLocals, initCalls, beginCalls, deinitCalls,
                   getNextCalls, acqHist, cfgFailed, resolved, exc, released>>
    /\ UNCHANGED <<probed, tldevice>>

\* capture: cam.DeInit() of the teardown loop, then the next camera or
\* "return result".
CaptureDeInit ==
    /\ pc = "c_deinit"
    /\ deinitCalls' = Inc(deinitCalls, idx)
    /\ IF idx < n
       THEN pc' = "c_end" /\ idx' = idx + 1 /\ UNCHANGED <<result, mresult>>
       ELSE ReturnFromCapture(result)
    /\ UNCHANGED <<faults, n, capLocals, cfgLocals, acqLocals, initCalls, beginCalls, endCalls,
                   getNextCalls, streaming, acqHist, cfgFailed, resolved, exc, released>>
    /\ UNCHANGED hist

\* main: "for cam in cam_list: cam.DeInit()".
MainDeInit ==
    /\ pc = "m_deinit"
    /\ deinitCalls' = Inc(deinitCalls, idx)
    /\ IF idx < n THEN idx' = idx + 1 /\ pc' = pc
       ELSE idx' = idx /\ pc' = "m_release"
    /\ UNCHANGED <<faults, n, capLocals, result, mresult, cfgLocals, acqLocals, initCalls,
                   beginCalls, endCalls, getNextCalls, streaming, acqHist, cfgFailed,
                   resolved, exc, released>>
    /\ UNCHANGED hist

\* main: cam_list.Clear(); system.ReleaseInstance(); return result.
ReleaseSystem ==
    /\ pc = "m_release"
    /\ released' = TRUE
    /\ pc' = "done"
    /\ UNCHANGED <<faults, n, idx, capLocals, result, mresult, cfgLocals, acqLocals, calls,
                   streaming, acqHist, cfgFailed, resolved, exc>>
    /\ UNCHANGED hist

Next ==
    \/ MainProbe \/ MainGetCameras \/ MainInit
    \/ CaptureOpen \/ PrintDeviceInfo \/ ReadSerial \/ Lookup \/ CaptureInit
    \/ CallConfigure \/ ChangeEnumSetting \/ SetMaxExtent \/ ChangeGain
    \/ ConfigureReturn
    \/ MakeDirectory \/ BeginAcquisition \/ AcquireEnter \/ GetNextImage
    \/ SaveImage \/ ReleaseImage \/ AcquireExcept
    \/ EndAcquisition \/ CaptureDeInit \/ MainDeInit \/ ReleaseSystem

Spec == Init /\ [][Next]_vars

\* The process has ended: main returned or an exception unwound it.
Ended == pc \in {"done", "crashed"}

\* ============================================================ src/format.py
\* capture and acquire_images of src/format.py, the single-file variant of the
\* program: capture keeps one nodemap_tldevice for the whole session and hands
\* it to every acquire_images call.
formatUnused == <<file, lines, serial_number, gain, mresult, nodemap, step, cfgok, acc,
                  cfgFailed, resolved, exc, released, failed, lastRead, probed>>

\* capture of src/format.py is entered with the cameras main detected.
FormatInit ==
    /\ pc = "f_info"
    /\ n \in 1..MaxCams /\ idx = 1 /\ file = 0
    /\ lines = <<>> /\ serial_number = <<>> /\ gain = Unbound
    /\ result = TRUE /\ mresult = TRUE
    /\ nodemap = NoNodes /\ step = 0 /\ cfgok = TRUE /\ acc = NoAcc
    /\ dsn = <<>> /\ i = 0
    /\ initCalls = [d \in CamIds |-> 0]
    /\ beginCalls = [d \in CamIds |-> 0]
    /\ endCalls = [d \in CamIds |-> 0]
    /\ deinitCalls = [d \in CamIds |-> 0]
    /\ getNextCalls = [d \in CamIds |-> 0]
    /\ streaming = {}
    /\ frames = [d \in CamIds |-> <<>>]
    /\ acqExc = [d \in CamIds |-> ""]
    /\ cfgFailed = {}
    /\ resolved = [d \in CamIds |-> NotYet]
    /\ exc = ""
    /\ faults = 0
    /\ released = FALSE
    /\ failed = FALSE
    /\ lastRead = NoRead
    /\ probed = "ok"
    /\ tldevice = 0

\* capture: "nodemap_tldevice = cam.GetTLDeviceNodeMap()" and
\* "result &= print_device_info(nodemap_tldevice)" of the configuration loop.
FormatPrintDeviceInfo ==
    /\ pc = "f_info"
    /\ tldevice' = idx
    /\ \E ok \in BOOLEAN : result' = Fold(result, ok) /\ Anomaly(~ok)
    /\ pc' = "f_init"
    /\ UNCHANGED <<n, idx, dsn, i, calls, streaming, acqHist, formatUnused>>

\* capture: cam.Init().
FormatCamInit ==
    /\ pc = "f_init"
    /\ initCalls' = Inc(initCalls, idx)
    /\ pc' = "f_configure"
    /\ UNCHANGED <<faults, n, idx, result, dsn, i, beginCalls, endCalls, deinitCalls,
                   getNextCalls, streaming, acqHist, tldevice, formatUnused>>

\* capture: "if not configure_camera(cam): return False", else the next camera
\* or the acquisition loop.
FormatConfigure ==
    /\ pc = "f_configure"
    /\ \E ok \in BOOLEAN :
         /\ Anomaly(~ok)
         /\ IF ~ok THEN pc' = "f_done" /\ result' = FALSE /\ idx' = idx
            ELSE IF idx < n THEN pc' = "f_info" /\ idx' = idx + 1 /\ result' = result
            ELSE pc' = "f_acquire" /\ idx' = 1 /\ result' = result
    /\ UNCHANGED <<n, dsn, i, calls, streaming, acqHist, tldevice, formatUnused>>

\* acquire_images returns ok to capture: "result &= acquire_images(cam,
\* nodemap, nodemap_tldevice)", then the next camera or the DeInit loop.
FormatAcquireReturn(ok) ==
    /\ result' = Fold(result, ok)
    /\ IF idx < n THEN pc' = "f_acquire" /\ idx' = idx + 1
       ELSE pc' = "f_deinit" /\ idx' = 1

\* acquire_images: AcquisitionMode is set to Continuous behind its two gates
\* ("return False" when one fails), then cam.BeginAcquisition().
FormatBeginAcquisition ==
    /\ pc = "f_acquire"
    /\ \E out \in {"gate", "raise", "ok"} :
         /\ Anomaly(out # "ok")
         /\ beginCalls' = IF out = "gate" THEN beginCalls ELSE Inc(beginCalls, idx)
         /\ streaming' = IF out = "ok" THEN streaming \cup {idx} ELSE streaming
         /\ IF out = "ok" THEN pc' = "f_serial" /\ UNCHANGED <<idx, result>>
            ELSE FormatAcquireReturn(FALSE)
    /\ UNCHANGED <<n, dsn, i, initCalls, endCalls, deinitCalls, getNextCalls, acqHist,
                   tldevice, formatUnused>>

\* acquire_images: the gated read of DeviceSerialNumber from the
\* nodemap_tldevice it was given.
FormatReadSerial ==
    /\ pc = "f_serial"
    /\ \E av \in BOOLEAN, rd \in BOOLEAN :
         /\ Anomaly(~(av /\ rd))
         /\ dsn' = IF av /\ rd THEN Serial(tldevice) ELSE <<>>
    /\ i' = 0
    /\ pc' = "f_next"
    /\ UNCHANGED <<n, idx, result, calls, streaming, acqHist, tldevice, formatUnused>>

FormatPrefix == <<"I", "m", "a", "g", "e", "F", "o", "r", "m", "a", "t",
                  "C", "o", "n", "t", "r", "o", "l">>

\* acquire_images: "ImageFormatControl-%s-%d.png" % (device_serial_number, i)
\* if device_serial_number is not empty, else "ImageFormatControl-%d.png" % i.
FormatFilename(device_serial_number, k) ==
    IF device_serial_number # <<>>
    THEN FormatPrefix \o <<"-">> \o device_serial_number \o <<"-">> \o Decimal(k)
             \o Extension
    ELSE FormatPrefix \o <<"-">> \o Decimal(k) \o Extension

\* The end of one pass of "for i in range(NUM_IMAGES)".
FormatNextFrame ==
    IF i + 1 < NUM_IMAGES
    THEN i' = i + 1 /\ pc' = "f_next" /\ UNCHANGED <<idx, result>>
    ELSE i' = i /\ pc' = "f_end" /\ UNCHANGED <<idx, result>>

\* acquire_images: cam.GetNextImage(...) and the completeness test; the
\* handler of the frame loop is "return False".
FormatGetNextImage ==
    /\ pc = "f_next"
    /\ getNextCalls' = Inc(getNextCalls, idx)
    /\ \E out \in {"raise", "incomplete", "complete"} :
         /\ Anomaly(out # "complete")
         /\ IF out = "raise"
            THEN /\ acqExc' = [acqExc EXCEPT ![idx] = "retrieval"]
                 /\ FormatAcquireReturn(FALSE)
                 /\ UNCHANGED <<frames, i>>
            ELSE /\ frames' = [frames EXCEPT ![idx] = Append(@, Frame(out = "complete"))]
                 /\ acqExc' = acqExc
                 /\ IF SaveWanted(out = "incomplete")
                    THEN pc' = "f_save" /\ UNCHANGED <<i, idx, result>>
                    ELSE FormatNextFrame
    /\ UNCHANGED <<n, dsn, initCalls, beginCalls, endCalls, deinitCalls, streaming,
                   tldevice, formatUnused>>

\* acquire_images: image_result.Save(filename, PySpin.PNG).
FormatSaveImage ==
    /\ pc = "f_save"
    /\ \E ok \in BOOLEAN :
         /\ Anomaly(~ok)
         /\ IF ok
            THEN /\ frames' = [frames EXCEPT ![idx][Len(frames[idx])].saved = "ok",
                                              ![idx][Len(frames[idx])].name =
                                                  FormatFilename(dsn, i)]
                 /\ acqExc' = acqExc
                 /\ pc' = "f_release"
                 /\ UNCHANGED <<idx, result>>
            ELSE /\ frames' = [frames EXCEPT ![idx][Len(frames[idx])].saved = "failed",
                                              ![idx][Len(frames[idx])].name =
                                                  FormatFilename(dsn, i)]
                 /\ acqExc' = [acqExc EXCEPT ![idx] = "save"]
                 /\ FormatAcquireReturn(FALSE)
    /\ UNCHANGED <<n, dsn, i, calls, streaming, tldevice, formatUnused>>

\* acquire_images: image_result.Release(), last statement of the else branch.
FormatReleaseImage ==
    /\ pc = "f_release"
    /\ frames' = [frames EXCEPT ![idx][Len(frames[idx])].released = @ + 1]
    /\ FormatNextFrame
    /\ UNCHANGED <<faults, n, dsn, calls, streaming, acqExc, tldevice, formatUnused>>

\* acquire_images: cam.EndAcquisition() after the frame loop; a
\* SpinnakerException goes to the outer handler, "return False".
FormatEndAcquisition ==
    /\ pc = "f_end"
    /\ endCalls' = Inc(endCalls, idx)
    /\ \E fault \in BOOLEAN :
         /\ Anomaly(fault)
         /\ streaming' = IF fault THEN streaming ELSE streaming \ {idx}
         /\ FormatAcquireReturn(~fault)
    /\ UNCHANGED <<n, dsn, i, initCalls, beginCalls, deinitCalls, getNextCalls, acqHist,
                   tldevice, formatUnused>>

\* capture: "for i, cam in enumerate(cam_list): cam.DeInit()", then
\* "return result".
FormatDeInit ==
    /\ pc = "f_deinit"
    /\ deinitCalls' = Inc(deinitCalls, idx)
    /\ IF idx < n THEN idx' = idx + 1 /\ pc' = pc ELSE idx' = idx /\ pc' = "f_done"
    /\ UNCHANGED <<faults, n, result, dsn, i, initCalls, beginCalls, endCalls,
                   getNextCalls, streaming, acqHist, tldevice, formatUnused>>

FormatNext ==
    \/ FormatPrintDeviceInfo \/ FormatCamInit \/ FormatConfigure
    \/ FormatBeginAcquisition \/ FormatReadSerial \/ FormatGetNextImage
    \/ FormatSaveImage \/ FormatReleaseImage \/ FormatEndAcquisition \/ FormatDeInit

SpecFormat == FormatInit /\ [][FormatNext]_vars

\* ================================================================== claims
\* The acquisition loop of capture was entered and is over.
AcquireOver ==
    /\ getNextCalls[1] >= 1
    /\ pc \in {"c_end", "c_deinit", "m_deinit", "m_release", "done"}

\* capture has returned to main.
CaptureReturned == pc \in {"m_deinit", "m_release", "done"}

\* C1: when the process has ended, every frame GetNextImage returned has been
\* released exactly once, whether it was saved, failed to save or was
\* incomplete.
C1_EveryFrameReleasedOnce ==
    Ended => \A d \in Cams : \A k \in 1..Len(frames[d]) : frames[d][k].released = 1

\* C2: whenever GetNextImage has been called on some camera, BeginAcquisition
\* has been called on every camera of the list.
C2_BeginBeforeFirstRetrieval ==
    \A d \in Cams : getNextCalls[d] > 0 => \A e \in Cams : beginCalls[e] >= 1

C2_Witness ==
    /\ n >= 2
    /\ getNextCalls[1] = 1
    /\ \A e \in Cams : e # 1 => getNextCalls[e] = 0 /\ beginCalls[e] = 1

\* C3: once configure_camera has returned False for a camera, BeginAcquisition
\* is never called on any camera, and when the process ends DeInit has been
\* called on every camera.
C3_ConfigFailureAbortsSession ==
    cfgFailed # {} =>
        /\ \A d \in Cams : beginCalls[d] = 0
        /\ Ended => \A d \in Cams : deinitCalls[d] >= 1

C3_Witness ==
    /\ pc = "done"
    /\ n >= 2
    /\ cfgFailed = {1}
    /\ \A d \in Cams : deinitCalls[d] >= 1 /\ beginCalls[d] = 0

\* C4: when capture returns after the acquisition loop was entered (which it
\* enters only after BeginAcquisition returned for every camera),
\* EndAcquisition and DeInit have both been called on every camera.
C4_TeardownEveryDevice ==
    (CaptureReturned /\ getNextCalls[1] >= 1) =>
        \A d \in Cams : endCalls[d] >= 1 /\ deinitCalls[d] >= 1

\* C5: the GetNextImage call that fails on a camera is the last one made on
\* it, and when the acquisition loop is over every camera whose own
\* acquire_images raised nothing has had NUM_IMAGES GetNextImage calls,
\* whatever happened on the others.
C5_RetrievalFailureContained ==
    /\ \A d \in Cams :
         acqExc[d] = "retrieval" => getNextCalls[d] = Len(frames[d]) + 1
    /\ AcquireOver =>
         \A e \in Cams : acqExc[e] = "" => getNextCalls[e] = NUM_IMAGES

C5_Witness ==
    /\ AcquireOver
    /\ n >= 2
    /\ acqExc[1] = "retrieval"
    /\ acqExc[2] = "" /\ getNextCalls[2] = NUM_IMAGES

\* The gain a documented-format file (given as its key/value lines) defines
\* for identity s: the value of the Gain line right after the line
\* DeviceSerialNumber<TAB>s, none if there is no such line.
ExpectedGain(ps, s) ==
    LET hits == {j \in 1..(Len(ps) - 1) :
                    ps[j] = <<kDeviceSerialNumber, s>> /\ ps[j + 1][1] = kGain} IN
    IF hits = {} THEN Unbound
    ELSE Bound(ps[(CHOOSE j \in hits : \A h \in hits : h <= j) + 1][2])

\* C6: for a file in the documented format, the gain a camera's lookup loop
\* resolves is the one the file defines for the camera's identity.
C6_DocumentedLookup ==
    \A d \in Cams :
        (Documented(file) /\ resolved[d] # NotYet) =>
            resolved[d] = ExpectedGain(DocPairs[file], Serial(d))

\* A line of the file without its terminator, as fields.
Fields(l) ==
    split(IF Len(l) > 0 /\ l[Len(l)] = NL THEN DropLast(l) ELSE l, TAB)

\* No DeviceSerialNumber line of the file carries identity s.
NoBlock(ls, s) ==
    \A j \in 1..Len(ls) :
        ~(/\ Len(Fields(ls[j])) >= 2
          /\ Fields(ls[j])[1] = kDeviceSerialNumber
          /\ Fields(ls[j])[2] = s)

\* C7: a camera whose identity no block of the file carries does not end the
\* session (no UnboundLocalError at its configure_camera call), and
\* change_gain does not write its Gain node.
C7_MissingGainNotFatal ==
    (file # 0 /\ idx \in Cams /\ NoBlock(lines, Serial(idx))) =>
        /\ exc # "UnboundLocalError"
        /\ acc.call = "change_gain" => \A w \in acc.writes : w.node # "Gain"

\* The block of identity s is malformed: its DeviceSerialNumber line is the
\* last line or is followed by a line whose key is not Gain.
Malformed(ls, s) ==
    \E j \in 1..Len(ls) :
        /\ Len(Fields(ls[j])) >= 2
        /\ Fields(ls[j])[1] = kDeviceSerialNumber
        /\ Fields(ls[j])[2] = s
        /\ (j = Len(ls) \/ Fields(ls[j + 1])[1] # kGain)

\* C8: when the block of some camera is malformed, the process still ends
\* with DeInit called on every camera.
C8_MalformedBlockContained ==
    (Ended /\ \E d \in Cams : Malformed(lines, Serial(d))) =>
        \A e \in Cams : deinitCalls[e] >= 1

\* The last call was change_enum_setting and changed no node but its own.
EnumCall == acc.call = "change_enum_setting"
OnlyOwnNode ==
    /\ \A w \in acc.writes : w.node = acc.node
    /\ \A nd \in NodeNames : nd # acc.node => nodemap[nd] = acc.before[nd]

\* C9 as stated: after change_enum_setting only the enumeration node may have
\* changed; with both gates passed it holds the entry's code; with the entry
\* failing its gate nothing was written.
C9_EnumResolution ==
    EnumCall =>
        /\ OnlyOwnNode
        /\ (acc.env.av /\ acc.env.wr /\ acc.env.eav /\ acc.env.erd) =>
               nodemap[acc.node] = EntryCode(acc.node, acc.choice)
        /\ ~(acc.env.eav /\ acc.env.erd) =>
               acc.writes = {} /\ nodemap = acc.before

\* C9 amended: as C9, but the node holds the entry's code only if SetIntValue
\* raised nothing; if it raised, the node keeps its value.
C9_EnumResolutionUnlessRaised ==
    EnumCall =>
        /\ OnlyOwnNode
        /\ (acc.env.av /\ acc.env.wr /\ acc.env.eav /\ acc.env.erd /\ ~acc.env.fault) =>
               nodemap[acc.node] = EntryCode(acc.node, acc.choice)
        /\ (acc.env.av /\ acc.env.wr /\ acc.env.eav /\ acc.env.erd /\ acc.env.fault) =>
               nodemap = acc.before
        /\ ~(acc.env.eav /\ acc.env.erd) =>
               acc.writes = {} /\ nodemap = acc.before

C9_Witness ==
    /\ EnumCall
    /\ CleanEnum(acc.env)
    /\ acc.before[acc.node] # EntryCode(acc.node, acc.choice)
    /\ nodemap[acc.node] = EntryCode(acc.node, acc.choice)

\* C10: every write of a configuration call was made to a node that was
\* available and writable at the write, and a node whose value changed was
\* written under such a gate.
C10_WritesGated ==
    acc.call # "" =>
        /\ \A w \in acc.writes : w.avail /\ w.writable
        /\ \A nd \in NodeNames :
             nodemap[nd] # acc.before[nd] =>
                 \E w \in acc.writes : w.node = nd /\ w.avail /\ w.writable

C10_Witness ==
    /\ acc.call = "change_gain"
    /\ Write("Gain", TRUE, TRUE) \in acc.writes
    /\ nodemap["Gain"] = gain.val

\* C11: capture's result is True exactly when no per-device outcome of the
\* session (print_device_info, the serial read, configure_camera,
\* BeginAcquisition, acquire_images, EndAcquisition) was a failure: once one
\* outcome has failed the result is False and stays False, and when capture
\* has returned, the value it returned is True iff nothing failed.
C11_ResultIsConjunction ==
    /\ failed => ~result
    /\ (CaptureReturned /\ initCalls[1] >= 1) => (result <=> ~failed)

\* A second camera was acquired with success after the first one failed, and
\* capture returned.
C11_Witness ==
    /\ CaptureReturned /\ n = 2
    /\ acqExc[1] # "" /\ acqExc[2] = ""
    /\ Len(frames[2]) = NUM_IMAGES
    /\ ~result

\* C12: over a run of main every camera goes strictly forward through its
\* states: Init, BeginAcquisition, EndAcquisition and DeInit are each called
\* at most once on it, and each only after the one before it.
C12_LifecycleOnceAndForward ==
    \A d \in CamIds :
        /\ initCalls[d] <= 1 /\ beginCalls[d] <= 1
        /\ endCalls[d] <= 1 /\ deinitCalls[d] <= 1
        /\ beginCalls[d] >= 1 => initCalls[d] >= 1
        /\ endCalls[d] >= 1 => beginCalls[d] >= 1
        /\ deinitCalls[d] >= 1 => initCalls[d] >= 1

\* C13: with two or more frames per camera, the frames of a camera are
\* retrieved in increasing index order, and whenever GetNextImage is about to
\* be called every frame retrieved from that camera before has been released.
C13_OneFrameOutstanding ==
    pc = "a_next" =>
        /\ Len(frames[idx]) = i
        /\ \A k \in 1..Len(frames[idx]) : frames[idx][k].released >= 1

\* C14: Save is invoked on a retrieved frame exactly when the frame is
\* complete - an incomplete frame is never saved, a complete frame is unsaved
\* only while acquire_images stands right before its Save - and a frame is
\* released only after Save was invoked on it.
C14_SaveIffCompleteBeforeRelease ==
    \A d \in CamIds : \A k \in 1..Len(frames[d]) :
        LET f == frames[d][k] IN
        /\ f.saved # "no" => f.complete
        /\ (f.complete /\ f.saved = "no") =>
               (pc = "a_save" /\ d = idx /\ k = Len(frames[d]))
        /\ f.released >= 1 => f.saved # "no"

\* One camera delivered an incomplete frame, left unsaved, and a complete
\* frame that was saved and then released.
C14_Witness ==
    \E d \in CamIds : \E k, l \in 1..Len(frames[d]) :
        /\ ~frames[d][k].complete /\ frames[d][k].saved = "no"
        /\ frames[d][l].complete /\ frames[d][l].saved = "ok"
        /\ frames[d][l].released = 1

\* s occurs in t as a run of consecutive characters.
Contains(t, s) ==
    \E o \in 0..(Len(t) - Len(s)) : \A j \in 1..Len(s) : t[o + j] = s[j]

\* The frames of camera d for which a filename was built.
Named(d) == {k \in 1..Len(frames[d]) : frames[d][k].name # <<>>}

\* C15: the filename of frame i of a camera whose serial number s was read is
\* the prefix, s and i, so it contains s; the filename of a camera whose
\* serial number node failed its gate holds the index and not the serial
\* number; and two frames of one camera never get the same filename.
C15_Filenames ==
    /\ pc = "a_release" =>
         LET name == frames[idx][Len(frames[idx])].name IN
         IF dsn # <<>>
         THEN /\ dsn = Serial(idx)
              /\ name = Prefix \o <<"-">> \o Serial(idx) \o <<"-">> \o Decimal(i) \o Extension
              /\ Contains(name, Serial(idx))
         ELSE /\ name = Prefix \o <<"-">> \o Decimal(i) \o Extension
              /\ Contains(name, Decimal(i))
              /\ ~Contains(name, Serial(idx))
    /\ \A d \in CamIds : \A k, l \in Named(d) :
         k # l => frames[d][k].name # frames[d][l].name

\* Frames 0 and 1 of one camera were both saved; and some camera with an
\* unreadable serial number node had a frame saved.
C15_Witness ==
    /\ \E d \in CamIds : Cardinality(Named(d)) >= 2
    /\ pc = "a_release" /\ dsn = <<>>

\* C16: on every run of main that detected a camera, whatever happens inside
\* capture, the process does not end before DeInit was called on every camera
\* and the system instance was released.
C16_TeardownAlways ==
    (Ended /\ n >= 1) =>
        /\ released
        /\ \A d \in Cams : deinitCalls[d] >= 1

\* C17: while configure_camera runs for camera d, the gain it was given comes
\* from a block of input.tsv whose DeviceSerialNumber is d's serial number: a
\* block for d exists and the gain is the one d's own lookup assigned, never
\* one left over from a camera handled before.
C17_GainIsOwn ==
    pc \in {"k_step", "k_return"} =>
        /\ ~NoBlock(lines, Serial(idx))
        /\ gain = resolved[idx]

\* C18: every read of a node value is made only on a node that was checked
\* available and readable: the serial number reads of capture and
\* acquire_images, and the read of an enumeration entry's integer code that
\* precedes each write of change_enum_setting.
C18_ReadsGated ==
    /\ lastRead.node # "" => lastRead.readable
    /\ (acc.call = "change_enum_setting" /\ acc.writes # {}) =>
           (acc.env.eav /\ acc.env.erd)

\* C19: configure_camera writes TriggerSource only while triggering is
\* disabled: at a write of TriggerSource the TriggerMode node does not hold
\* the code of On, whatever TriggerMode was at the start and whatever the
\* gates of TriggerMode and of its Off entry answered.
C19_SourceWrittenWhileTriggerOff ==
    (acc.call = "change_enum_setting" /\ acc.node = "TriggerSource" /\ acc.writes # {}) =>
        acc.before["TriggerMode"] # EntryCode("TriggerMode", "On")

\* The last configuration call was change_gain and it wrote the Gain node.
GainWritten ==
    /\ acc.call = "change_gain"
    /\ \E w \in acc.writes : w.node = "Gain"

\* C20: change_gain writes Gain only after it set GainAuto to Off in the same
\* call: whenever Gain was written, GainAuto was written before it and holds
\* the code of Off; and when the GainAuto node or its Off entry failed its
\* gate, Gain was not written and keeps its value.
C20_GainAfterAutoOff ==
    /\ GainWritten =>
         /\ \E w \in acc.writes : w.node = "GainAuto"
         /\ nodemap["GainAuto"] = EntryCode("GainAuto", "Off")
    /\ (acc.call = "change_gain"
        /\ ~(acc.env.av /\ acc.env.wr /\ acc.env.eav /\ acc.env.erd)) =>
         /\ ~GainWritten
         /\ nodemap["Gain"] = acc.before["Gain"]

\* change_gain wrote Gain on a camera whose GainAuto was not Off before.
C20_Witness ==
    /\ GainWritten
    /\ acc.before["GainAuto"] # EntryCode("GainAuto", "Off")
    /\ nodemap["Gain"] = gain.val

\* C21: in configure_camera no failure of a single setting - a gate that does
\* not pass or a driver error raised by a write - keeps the settings after it
\* from being attempted: configure_camera returns only after its last setting
\* was attempted.
C21_EverySettingAttempted ==
    pc = "k_return" =>
        /\ step = Len(Settings)
        /\ acc.node = Settings[Len(Settings)].node

\* BeginAcquisition was called on some camera.
Begun == \E d \in CamIds : beginCalls[d] >= 1

\* C22: in capture no node is written on any camera once BeginAcquisition was
\* called on any camera: from the first BeginAcquisition on, capture is past
\* its configuration loop and no configuration call is under way.
C22_NoWriteAfterBegin ==
    Begun =>
        /\ pc \notin {"c_info", "c_serial", "c_lookup", "c_init", "c_configure",
                      "k_step", "k_return"}
        /\ acc = NoAcc /\ nodemap = NoNodes

\* Two cameras were configured with writes, then started, and frames were
\* retrieved.
C22_Witness ==
    /\ n = 2 /\ beginCalls[1] = 1 /\ beginCalls[2] = 1
    /\ cfgFailed = {}
    /\ Len(frames[2]) >= 1

\* No camera was touched: no lifecycle call, no node access, no retrieval.
Untouched ==
    /\ \A d \in CamIds :
         /\ initCalls[d] = 0 /\ beginCalls[d] = 0 /\ endCalls[d] = 0
         /\ deinitCalls[d] = 0 /\ getNextCalls[d] = 0
    /\ acc = NoAcc /\ nodemap = NoNodes /\ lastRead = NoRead

\* C23: when the write-permission probe failed or no camera was detected,
\* no camera is ever touched, and main ends returning False.
C23_AbortBeforeDevices ==
    (probed = "failed" \/ (probed = "ok" /\ pc # "m_cameras" /\ n = 0)) =>
        /\ Untouched
        /\ pc = "done" /\ ~mresult

\* main has ended after a failed probe.
C23_Witness == pc = "done" /\ probed = "failed" /\ ~mresult

\* C24: the serial number in the filename of a frame is that of the camera
\* the frame was retrieved from: no filename built for a frame of camera d
\* holds the serial number of another camera.
C24_FilenameSerialIsOwn ==
    \A d \in CamIds : \A k \in Named(d) : \A o \in CamIds :
        Contains(frames[d][k].name, Serial(o)) => o = d

\* The order of settings of configure_camera; an empty choice stands for a
\* setting that is not the selection of a named entry.
SettingOrder == <<
    [node |-> "PixelFormat", choice |-> ""],
    [node |-> "Width", choice |-> ""],
    [node |-> "Height", choice |-> ""],
    [node |-> "TriggerMode", choice |-> "Off"],
    [node |-> "TriggerSource", choice |-> ""],
    [node |-> "TriggerMode", choice |-> "On"],
    [node |-> "SensorShutterMode", choice |-> ""],
    [node |-> "GainAuto", choice |-> "Off"],
    [node |-> "Gain", choice |-> ""],
    [node |-> "AcquisitionMode", choice |-> ""]
>>

\* The places of SettingOrder that the configuration call a attempts: one for
\* an enumeration or an extent, GainAuto and Gain for change_gain.
Places(a) ==
    {p \in 1..Len(SettingOrder) :
        IF a.call = "change_gain"
        THEN SettingOrder[p].node \in {"GainAuto", "Gain"}
        ELSE /\ SettingOrder[p].node = a.node
             /\ SettingOrder[p].choice \in {"", a.choice}}
FirstPlace(a) == CHOOSE p \in Places(a) : \A q \in Places(a) : p <= q
LastPlace(a) == CHOOSE p \in Places(a) : \A q \in Places(a) : q <= p

\* C25: configure_camera attempts its settings in the order PixelFormat,
\* Width, Height, TriggerMode Off, TriggerSource, TriggerMode On,
\* SensorShutterMode, GainAuto Off, Gain, AcquisitionMode: its first call
\* attempts the first of them and every later call attempts the one right
\* after those of the call before.
C25_SettingOrder ==
    [][(acc' # acc /\ acc'.call # "") =>
          /\ Places(acc') # {}
          /\ FirstPlace(acc') = IF acc.call = "" THEN 1 ELSE LastPlace(acc) + 1]_vars

\* configure_camera got as far as its last setting and wrote AcquisitionMode.
C25_Witness ==
    /\ acc.call = "change_enum_setting" /\ acc.node = "AcquisitionMode"
    /\ acc.writes # {}

\* The frames of the session that were saved to a file, as <<camera, place>>.
SavedFrames ==
    {df \in CamIds \X (1..NUM_IMAGES) :
        /\ df[2] <= Len(frames[df[1]])
        /\ frames[df[1]][df[2]].saved = "ok"}

\* C26: within one session no two saved frames have the same file name,
\* whichever cameras and frame indices they belong to.
C26_NoSharedPath ==
    \A a, b \in SavedFrames :
        a # b => frames[a[1]][a[2]].name # frames[b[1]][b[2]].name

\* C27: DeInit is never called on a camera whose acquisition is active: a
\* camera on which DeInit was called is not one that was started and not
\* stopped with success.
C27_NoDeInitWhileStreaming ==
    \A d \in CamIds : deinitCalls[d] >= 1 => d \notin streaming

\* C28: when the session is reported a success (main ends with True, exit
\* code 0), exactly NUM_IMAGES frames were retrieved from every camera and
\* each of them was complete and saved.
C28_SuccessMeansAllSaved ==
    (pc = "done" /\ mresult) =>
        \A d \in Cams :
            /\ Len(frames[d]) = NUM_IMAGES
            /\ \A k \in 1..Len(frames[d]) :
                 frames[d][k].complete /\ frames[d][k].saved = "ok"

\* C29: the gain resolved for a camera is the whole value field of the Gain
\* line that follows a line matching the camera's serial number, with the
\* line terminator and nothing else removed, also when the line is the last
\* of a file that does not end with a newline.
C29_WholeValueField ==
    \A d \in Cams :
        resolved[d].bound =>
            \E j \in 1..(Len(lines) - 1) :
                /\ Len(split(lines[j], TAB)) >= 2
                /\ split(lines[j], TAB)[2] = Serial(d)
                /\ Len(Fields(lines[j + 1])) >= 2
                /\ resolved[d].val = Fields(lines[j + 1])[2]
====
